---- MODULE Spec2Model ----
(***************************************************************************)
(* parmap / fun of ot/utils.py: a coordinator process feeds P worker       *)
(* processes through a capacity-1 multiprocessing.Queue (q_in), collects   *)
(* their results from an unbounded multiprocessing.Queue (q_out), joins    *)
(* the workers and returns the results sorted by index.                    *)
(***************************************************************************)
EXTENDS Integers, Sequences, FiniteSets, TLC

\* ---------------------------------------------------------------- bounds
MaxN == 3
MaxP == 2

\* ------------------------------------------------------------- encodings
\* Python's None, as an index and as a payload (indices are >= 0).
None == 0 - 1
\* f(x) raising an exception instead of returning a value.
Raise == 0 - 2
\* payloads that may appear in X and values f may return
Payloads == {None, 1}
Outcomes == {Raise, 10, 11}

VARIABLES
    f,          \* the caller's function, payload -> value or Raise
    X,          \* the caller's input sequence (1-based here, index i is X[i+1])
    nprocs,     \* the caller's worker count
    pc,         \* coordinator: "start" (called), "run" (past line 196), "done" (returned)
    q_in,       \* items put on q_in and not yet got
    q_out,      \* results written to q_out's pipe and not yet got
    wpc,        \* per worker: "unstarted", "idle" (at q_in.get), "running" (at f(x)),
                \*   "terminated" (left the loop), "failed" (f raised)
    item,       \* per worker: the (i, x) it got and has not yet dealt with
    wbuf,       \* per worker: results put on q_out, not yet written to the pipe by its feeder
    sent,       \* number of WorkItems put (len(sent), line 198)
    nsentinel,  \* number of sentinels put (loop counter of line 199)
    res,        \* results got so far (line 200)
    joined,     \* number of workers joined (loop counter of line 202)
    ret,        \* the returned list
    call,       \* which call of parmap this is
    prev,       \* what the previous call returned
    napplied,   \* history: per index, how many times a worker got it and applied f
    nseen       \* history: per worker, how many sentinels it got

vars == <<f, X, nprocs, pc, q_in, q_out, wpc, item, wbuf, sent, nsentinel,
          res, joined, ret, call, prev, napplied, nseen>>

\* ---------------------------------------------------------------- helpers
\* len(X)
N == Len(X)

\* range(nprocs): empty for nprocs <= 0
Procs == 1..nprocs

\* len(range(nprocs))
NProcs == IF nprocs > 0 THEN nprocs ELSE 0

\* mutant: a queue of two slots
QInMaxsize_Two == 1 + 1

\* multiprocessing.Queue(1)
QInMaxsize == 1

\* the sentinel tuple (None, None)
Sentinel == [i |-> None, x |-> None]

\* mutant: items tagged in reverse, as by enumerate(reversed(X))
WorkItem_Reversed(k) == [i |-> N - 1 - k, x |-> X[N - k]]

\* enumerate(X)[k] = (k, X[k])
WorkItem(k) == [i |-> k, x |-> X[k + 1]]

\* tuple comparison (i, v) < (j, w) as used by sorted()
TupleLess(a, b) == a.i < b.i \/ (a.i = b.i /\ a.v < b.v)

\* stable insertion of e into the sorted sequence s
RECURSIVE Insert(_, _)
Insert(e, s) ==
    IF s = <<>> THEN <<e>>
    ELSE IF TupleLess(e, Head(s)) THEN <<e>> \o s
    ELSE <<Head(s)>> \o Insert(e, Tail(s))

\* sorted(res)
RECURSIVE SortedSeq(_)
SortedSeq(s) ==
    IF s = <<>> THEN <<>>
    ELSE Insert(s[Len(s)], SortedSeq(SubSeq(s, 1, Len(s) - 1)))

\* mutant: the results in arrival order, sorted() forgotten
ReturnValue_NoSort(r) == [n \in 1..Len(r) |-> r[n].v]

\* [x for i, x in sorted(res)]
ReturnValue(r) == [n \in 1..Len(r) |-> SortedSeq(r)[n].v]

\* a process can be joined once fun has ended (normally or by an exception)
\* and its queue feeder has flushed what it put
Exited(w) == wpc[w] \in {"terminated", "failed"} /\ wbuf[w] = <<>>

\* ------------------------------------------------------------------- Init
Init ==
    /\ f \in [Payloads -> Outcomes]
    /\ X \in UNION {[1..n -> Payloads] : n \in 0..MaxN}
    /\ nprocs \in (0 - 1)..MaxP
    /\ pc = "start"
    /\ q_in = <<>>
    /\ q_out = <<>>
    /\ wpc = [w \in Procs |-> "unstarted"]
    /\ item = [w \in Procs |-> Sentinel]
    /\ wbuf = [w \in Procs |-> <<>>]
    /\ sent = 0
    /\ nsentinel = 0
    /\ res = <<>>
    /\ joined = 0
    /\ ret = <<>>
    /\ call = 1
    /\ prev = <<>>
    /\ napplied = [k \in 0..(N - 1) |-> 0]
    /\ nseen = [w \in Procs |-> 0]

\* ------------------------------------------------------------ coordinator
\* mutant: queues and processes made by the first call and kept for the next
Spawn_KeepPool ==
    /\ pc = "start"
    /\ pc' = "run"
    /\ IF call = 1
       THEN /\ q_in' = <<>>
            /\ q_out' = <<>>
            /\ wpc' = [w \in Procs |-> "idle"]
            /\ item' = [w \in Procs |-> Sentinel]
            /\ wbuf' = [w \in Procs |-> <<>>]
            /\ napplied' = [k \in 0..(N - 1) |-> 0]
            /\ nseen' = [w \in Procs |-> 0]
       ELSE UNCHANGED <<q_in, q_out, wpc, item, wbuf, napplied, nseen>>
    /\ UNCHANGED <<f, X, nprocs, sent, nsentinel, res, joined, ret, call, prev>>

\* lines 189-196: fresh queues, nprocs fresh processes, all started
Spawn ==
    /\ pc = "start"
    /\ pc' = "run"
    /\ q_in' = <<>>
    /\ q_out' = <<>>
    /\ wpc' = [w \in Procs |-> "idle"]
    /\ item' = [w \in Procs |-> Sentinel]
    /\ wbuf' = [w \in Procs |-> <<>>]
    /\ napplied' = [k \in 0..(N - 1) |-> 0]
    /\ nseen' = [w \in Procs |-> 0]
    /\ UNCHANGED <<f, X, nprocs, sent, nsentinel, res, joined, ret, call, prev>>

\* line 198: q_in.put((i, x)), blocking while q_in is full
PutItem ==
    /\ pc = "run"
    /\ sent < N
    /\ Len(q_in) < QInMaxsize
    /\ q_in' = Append(q_in, WorkItem(sent))
    /\ sent' = sent + 1
    /\ UNCHANGED <<f, X, nprocs, pc, q_out, wpc, item, wbuf, nsentinel, res,
                   joined, ret, call, prev, napplied, nseen>>

\* mutant: one sentinel for the whole pool
PutSentinel_One ==
    /\ pc = "run"
    /\ sent = N
    /\ nsentinel < NProcs
    /\ Len(q_in) < QInMaxsize
    /\ q_in' = Append(q_in, Sentinel)
    /\ nsentinel' = NProcs
    /\ UNCHANGED <<f, X, nprocs, pc, q_out, wpc, item, wbuf, sent, res,
                   joined, ret, call, prev, napplied, nseen>>

\* mutant: the sentinels are put without waiting for the last work item
PutSentinel_Early ==
    /\ pc = "run"
    /\ nsentinel < NProcs
    /\ Len(q_in) < QInMaxsize
    /\ q_in' = Append(q_in, Sentinel)
    /\ nsentinel' = nsentinel + 1
    /\ UNCHANGED <<f, X, nprocs, pc, q_out, wpc, item, wbuf, sent, res,
                   joined, ret, call, prev, napplied, nseen>>

\* line 199: q_in.put((None, None)), once per range(nprocs)
PutSentinel ==
    /\ pc = "run"
    /\ sent = N
    /\ nsentinel < NProcs
    /\ Len(q_in) < QInMaxsize
    /\ q_in' = Append(q_in, Sentinel)
    /\ nsentinel' = nsentinel + 1
    /\ UNCHANGED <<f, X, nprocs, pc, q_out, wpc, item, wbuf, sent, res,
                   joined, ret, call, prev, napplied, nseen>>

\* line 200: q_out.get(), len(sent) times, blocking while q_out is empty
GetResult ==
    /\ pc = "run"
    /\ sent = N
    /\ nsentinel = NProcs
    /\ Len(res) < sent
    /\ q_out # <<>>
    /\ res' = Append(res, Head(q_out))
    /\ q_out' = Tail(q_out)
    /\ UNCHANGED <<f, X, nprocs, pc, q_in, wpc, item, wbuf, sent, nsentinel,
                   joined, ret, call, prev, napplied, nseen>>

\* mutant: the workers are not waited for
Join_NoWait ==
    /\ pc = "run"
    /\ sent = N
    /\ nsentinel = NProcs
    /\ Len(res) = sent
    /\ joined < NProcs
    /\ joined' = joined + 1
    /\ UNCHANGED <<f, X, nprocs, pc, q_in, q_out, wpc, item, wbuf, sent,
                   nsentinel, res, ret, call, prev, napplied, nseen>>

\* line 202: p.join() for each p in proc, in order
Join ==
    /\ pc = "run"
    /\ sent = N
    /\ nsentinel = NProcs
    /\ Len(res) = sent
    /\ joined < NProcs
    /\ Exited(joined + 1)
    /\ joined' = joined + 1
    /\ UNCHANGED <<f, X, nprocs, pc, q_in, q_out, wpc, item, wbuf, sent,
                   nsentinel, res, ret, call, prev, napplied, nseen>>

\* line 204
Return ==
    /\ pc = "run"
    /\ sent = N
    /\ nsentinel = NProcs
    /\ Len(res) = sent
    /\ joined = NProcs
    /\ ret' = ReturnValue(res)
    /\ pc' = "done"
    /\ UNCHANGED <<f, X, nprocs, q_in, q_out, wpc, item, wbuf, sent, nsentinel,
                   res, joined, call, prev, napplied, nseen>>

\* the caller calls parmap again with the same f, X and nprocs
CallAgain ==
    /\ pc = "done"
    /\ call = 1
    /\ call' = call + 1
    /\ prev' = ret
    /\ pc' = "start"
    /\ sent' = 0
    /\ nsentinel' = 0
    /\ res' = <<>>
    /\ joined' = 0
    /\ ret' = <<>>
    /\ UNCHANGED <<f, X, nprocs, q_in, q_out, wpc, item, wbuf, napplied, nseen>>

\* ----------------------------------------------------------------- worker
\* mutant: the sentinel is got but the loop goes on
Take_NoBreak(w) ==
    /\ wpc[w] = "idle"
    /\ q_in # <<>>
    /\ q_in' = Tail(q_in)
    /\ IF Head(q_in).i = None
       THEN /\ nseen' = [nseen EXCEPT ![w] = @ + 1]
            /\ UNCHANGED <<wpc, item, napplied>>
       ELSE /\ wpc' = [wpc EXCEPT ![w] = "running"]
            /\ item' = [item EXCEPT ![w] = Head(q_in)]
            /\ napplied' = [napplied EXCEPT ![Head(q_in).i] = @ + 1]
            /\ UNCHANGED nseen
    /\ UNCHANGED <<f, X, nprocs, pc, q_out, wbuf, sent, nsentinel, res, joined,
                   ret, call, prev>>

\* mutant: a work item is read but left on the queue
Take_Peek(w) ==
    /\ wpc[w] = "idle"
    /\ q_in # <<>>
    /\ q_in' = IF Head(q_in).i = None THEN Tail(q_in) ELSE q_in
    /\ item' = [item EXCEPT ![w] = Head(q_in)]
    /\ IF Head(q_in).i = None
       THEN /\ wpc' = [wpc EXCEPT ![w] = "terminated"]
            /\ nseen' = [nseen EXCEPT ![w] = @ + 1]
            /\ UNCHANGED napplied
       ELSE /\ wpc' = [wpc EXCEPT ![w] = "running"]
            /\ napplied' = [napplied EXCEPT ![Head(q_in).i] = @ + 1]
            /\ UNCHANGED nseen
    /\ UNCHANGED <<f, X, nprocs, pc, q_out, wbuf, sent, nsentinel, res, joined,
                   ret, call, prev>>

\* mutant: the sentinel is recognised by its payload, x is None
Take_ByPayload(w) ==
    /\ wpc[w] = "idle"
    /\ q_in # <<>>
    /\ q_in' = Tail(q_in)
    /\ item' = [item EXCEPT ![w] = Head(q_in)]
    /\ IF Head(q_in).x = None
       THEN /\ wpc' = [wpc EXCEPT ![w] = "terminated"]
            /\ nseen' = [nseen EXCEPT ![w] = @ + 1]
            /\ UNCHANGED napplied
       ELSE /\ wpc' = [wpc EXCEPT ![w] = "running"]
            /\ napplied' = [napplied EXCEPT ![Head(q_in).i] = @ + 1]
            /\ UNCHANGED nseen
    /\ UNCHANGED <<f, X, nprocs, pc, q_out, wbuf, sent, nsentinel, res, joined,
                   ret, call, prev>>

\* lines 181-183: i, x = q_in.get(); if i is None: break
Take(w) ==
    /\ wpc[w] = "idle"
    /\ q_in # <<>>
    /\ q_in' = Tail(q_in)
    /\ item' = [item EXCEPT ![w] = Head(q_in)]
    /\ IF Head(q_in).i = None
       THEN /\ wpc' = [wpc EXCEPT ![w] = "terminated"]
            /\ nseen' = [nseen EXCEPT ![w] = @ + 1]
            /\ UNCHANGED napplied
       ELSE /\ wpc' = [wpc EXCEPT ![w] = "running"]
            /\ napplied' = [napplied EXCEPT ![Head(q_in).i] = @ + 1]
            /\ UNCHANGED nseen
    /\ UNCHANGED <<f, X, nprocs, pc, q_out, wbuf, sent, nsentinel, res, joined,
                   ret, call, prev>>

\* the tuple line 184 puts
ResultItem(w) == [i |-> item[w].i, v |-> f[item[w].x]]

\* mutant: an exception of f is swallowed and a result is put all the same
Apply_Swallow(w) ==
    /\ wpc[w] = "running"
    /\ wpc' = [wpc EXCEPT ![w] = "idle"]
    /\ wbuf' = [wbuf EXCEPT ![w] = Append(@, ResultItem(w))]
    /\ item' = [item EXCEPT ![w] = Sentinel]
    /\ UNCHANGED <<f, X, nprocs, pc, q_in, q_out, sent, nsentinel, res,
                   joined, ret, call, prev, napplied, nseen>>

\* line 184: q_out.put((i, f(x))); an exception of f ends fun
Apply(w) ==
    /\ wpc[w] = "running"
    /\ IF f[item[w].x] = Raise
       THEN /\ wpc' = [wpc EXCEPT ![w] = "failed"]
            /\ UNCHANGED wbuf
       ELSE /\ wpc' = [wpc EXCEPT ![w] = "idle"]
            /\ wbuf' = [wbuf EXCEPT ![w] = Append(@, ResultItem(w))]
    /\ item' = [item EXCEPT ![w] = Sentinel]
    /\ UNCHANGED <<f, X, nprocs, pc, q_in, q_out, sent, nsentinel, res,
                   joined, ret, call, prev, napplied, nseen>>

\* the feeder thread of the worker's q_out writes the oldest buffered result
Feed(w) ==
    /\ wbuf[w] # <<>>
    /\ q_out' = Append(q_out, Head(wbuf[w]))
    /\ wbuf' = [wbuf EXCEPT ![w] = Tail(@)]
    /\ UNCHANGED <<f, X, nprocs, pc, q_in, wpc, item, sent, nsentinel, res,
                   joined, ret, call, prev, napplied, nseen>>

\* ------------------------------------------------------------------- Next
Coordinator == Spawn \/ PutItem \/ PutSentinel \/ GetResult \/ Join \/ Return

Worker(w) == Take(w) \/ Apply(w)

\* the steps of one call of parmap: the coordinator, the workers, the feeders
Call ==
    \/ Coordinator
    \/ \E w \in Procs : Worker(w)
    \/ \E w \in Procs : Feed(w)

Next == Call \/ CallAgain

Spec == Init /\ [][Next]_vars

\* every process and feeder thread that can run eventually does
Fairness ==
    /\ WF_vars(Coordinator)
    /\ \A w \in 1..MaxP : WF_vars(w \in Procs /\ Worker(w))
    /\ \A w \in 1..MaxP : WF_vars(w \in Procs /\ Feed(w))

\* one function per set of payloads it raises on
FailurePatterns ==
    {g \in [Payloads -> Outcomes] : g[None] \in {Raise, 10} /\ g[1] \in {Raise, 11}}

\* a single call of parmap, fairly scheduled
FairInit == Init /\ f \in FailurePatterns

FairSpec == FairInit /\ [][Call]_vars /\ Fairness

\* ============================================================ properties
\* f returns a value for every payload
NeverFails == \A x \in Payloads : f[x] # Raise

\* the indices of X on which f raises
FailingIdx == {k \in 0..(N - 1) : f[X[k + 1]] = Raise}

\* map(f, X)
SeqMap == [n \in 1..N |-> f[X[n]]]

\* where the coordinator stands
AtPut == pc = "run" /\ (sent < N \/ nsentinel < NProcs)
AtGet == pc = "run" /\ sent = N /\ nsentinel = NProcs /\ Len(res) < sent
AtJoin == pc = "run" /\ sent = N /\ nsentinel = NProcs /\ Len(res) = sent

\* how many entries of s carry index k
Occ(s, k) == Cardinality({n \in 1..Len(s) : s[n].i = k})

\* how many copies of index k are held by the channels, the workers and res
Carried(k) ==
    Occ(q_in, k) + Occ(q_out, k) + Occ(res, k)
    + Cardinality({w \in Procs : wpc[w] = "running" /\ item[w].i = k})
    + Cardinality({p \in Procs \X (1..MaxN) :
                     p[2] <= Len(wbuf[p[1]]) /\ wbuf[p[1]][p[2]].i = k})

\* some result arrived before one of a smaller index
OutOfOrder(s) == \E a, b \in 1..Len(s) : a < b /\ s[a].i > s[b].i

\* C1: with nprocs >= 1 and f never failing, whenever parmap has returned,
\* the returned list has length len(X) and its i-th element is f(X[i]),
\* whatever the interleaving of the workers and the order of completion.
C1_ResultCorrect ==
    (pc = "done" /\ nprocs >= 1 /\ NeverFails)
        => /\ Len(ret) = N
           /\ \A k \in 0..(N - 1) : ret[k + 1] = f[X[k + 1]]

\* a return after results arrived out of index order, with distinct values
C1_Witness ==
    /\ pc = "done" /\ nprocs >= 2 /\ NeverFails
    /\ N = MaxN
    /\ OutOfOrder(res)
    /\ f[None] # f[1]
    /\ X[1] # X[2]
    /\ ret = SeqMap

\* C2: with nprocs >= 1 and f never failing, under fair scheduling every call
\* returns; no reachable state is a deadlock of a call that has not returned;
\* and for len(X) = 0 the call puts no work item, puts nprocs sentinels, gets
\* no result, joins every worker and returns the empty list.
C2_Terminates ==
    /\ ((nprocs >= 1 /\ NeverFails /\ pc = "start") ~> (pc = "done"))
    /\ []((nprocs >= 1 /\ NeverFails /\ pc # "done") => ENABLED Call)
    /\ []((nprocs >= 1 /\ NeverFails /\ N = 0 /\ pc = "done")
            => /\ sent = 0
               /\ nsentinel = nprocs
               /\ res = <<>>
               /\ joined = nprocs
               /\ \A w \in Procs : wpc[w] = "terminated" /\ nseen[w] = 1
               /\ ret = <<>>)

\* an empty input has been mapped by a full pool
C2_Witness ==
    /\ pc = "done" /\ nprocs = MaxP /\ NeverFails
    /\ N = 0
    /\ nsentinel = nprocs
    /\ joined = nprocs
    /\ ret = <<>>

\* C3: with nprocs >= 1 and f never failing, no worker ever gets more than one
\* sentinel, never more than nprocs sentinels are put, and when parmap
\* returns exactly nprocs sentinels have been put, every worker has got
\* exactly one and every worker has terminated.
C3_Sentinels ==
    (nprocs >= 1 /\ NeverFails)
        => /\ nsentinel <= nprocs
           /\ \A w \in Procs : nseen[w] <= 1
           /\ pc = "done"
                => /\ nsentinel = nprocs
                   /\ \A w \in Procs :
                        nseen[w] = 1 /\ wpc[w] = "terminated" /\ Exited(w)

\* a pool of MaxP workers has mapped a non-empty input and returned
C3_Witness ==
    /\ pc = "done" /\ nprocs = MaxP /\ NeverFails
    /\ N >= 1
    /\ nsentinel = nprocs
    /\ \A w \in Procs : nseen[w] = 1

\* C4: with nprocs >= 1 and f never failing, every index put so far is held
\* exactly once (on q_in, by one worker, on q_out or in res) and no other index
\* is held at all; no index is taken by a worker twice; and once the
\* coordinator has got len(X) results, the indices it got are exactly
\* 0..len(X)-1, each once.
C4_ExactlyOnce ==
    (nprocs >= 1 /\ NeverFails)
        => /\ \A k \in 0..(N - 1) :
                /\ napplied[k] <= 1
                /\ pc = "run" => Carried(k) = (IF k < sent THEN 1 ELSE 0)
                /\ pc = "run" /\ Occ(q_in, k) = 0 /\ k < sent => napplied[k] = 1
           /\ (AtJoin \/ pc = "done")
                => /\ {res[n].i : n \in 1..Len(res)} = 0..(N - 1)
                   /\ \A k \in 0..(N - 1) : Occ(res, k) = 1

\* all results of a full-length input collected, out of order, before the joins
C4_Witness ==
    /\ AtJoin /\ joined = 0 /\ nprocs >= 2 /\ NeverFails
    /\ N = MaxN
    /\ OutOfOrder(res)
    /\ {res[n].i : n \in 1..Len(res)} = 0..(N - 1)

\* C5: with nprocs < 1 parmap reports an error at once: no item is ever put
\* on q_in, the call does not block and it returns no list.
C5_InvalidArgument ==
    nprocs < 1
        => /\ sent = 0
           /\ q_in = <<>>
           /\ pc # "done"
           /\ (pc = "run" => ENABLED Call)

\* the coordinator waits for the last result and nothing can produce it
BlockedOnGet ==
    /\ AtGet
    /\ Len(res) = N - 1
    /\ q_out = <<>>
    /\ \A w \in Procs : wbuf[w] = <<>> /\ wpc[w] \in {"terminated", "failed"}

\* the coordinator waits for room on q_in and no worker is left to make it
BlockedOnPut ==
    /\ AtPut
    /\ Len(q_in) = QInMaxsize
    /\ \A w \in Procs : wpc[w] \in {"terminated", "failed"}

\* C6: if f raises on some X[i] and nprocs >= 1, parmap never returns, no
\* result is ever produced for such an i, and under fair scheduling the
\* coordinator ends blocked for good, either getting the len(X)-th result
\* from an empty q_out or putting on a full q_in that no worker reads.
C6_HangsOnFailure ==
    /\ []((nprocs >= 1 /\ FailingIdx # {})
            => /\ pc # "done"
               /\ ~AtJoin
               /\ \A k \in FailingIdx :
                    Occ(q_out, k) + Occ(res, k) = 0
                    /\ \A w \in Procs : Occ(wbuf[w], k) = 0)
    /\ (nprocs >= 1 /\ FailingIdx # {})
            => <>[](/\ BlockedOnGet \/ BlockedOnPut
                    /\ \E w \in Procs : wpc[w] = "failed")

\* the coordinator waits for the last result, which the failed worker never put
C6_Witness ==
    /\ nprocs >= 2 /\ N >= 2
    /\ FailingIdx # {}
    /\ BlockedOnGet
    /\ \E w \in Procs : wpc[w] = "failed"
    /\ \A k \in FailingIdx : napplied[k] = 1 /\ Occ(res, k) = 0
    /\ ~ENABLED Call

\* C7: if f raises on exactly one X[i] and nprocs >= 1, the call ends: it is
\* never stuck before it has ended, and when it has ended it exposes no
\* results and no worker is left alive.
C7_FailsFast ==
    (nprocs >= 1 /\ Cardinality(FailingIdx) = 1)
        => /\ pc # "done" => ENABLED Call
           /\ pc = "done" => ret = <<>> /\ \A w \in Procs : Exited(w)

\* C8: at most one item is on q_in at a time, and while one is there the
\* coordinator can put neither a work item nor a sentinel.
C8_Backpressure ==
    nprocs >= 1
        => /\ Len(q_in) <= 1
           /\ q_in # <<>> => ~ENABLED (PutItem \/ PutSentinel)

\* an item waits on q_in, more are to be put and every worker is busy
C8_Witness ==
    /\ nprocs = MaxP
    /\ Len(q_in) = 1
    /\ AtPut
    /\ \A w \in Procs : wpc[w] = "running"
    /\ ~ENABLED (PutItem \/ PutSentinel)

\* the results in the order they leave the single worker
Stream == res \o q_out \o wbuf[1]

\* C9: with nprocs = 1 the worker applies f to X[0], X[1], ... in that order,
\* one at a time and once each; the results reach q_out and the coordinator
\* in index order; and the returned list is map(f, X).
C9_Sequential ==
    (nprocs = 1 /\ pc # "start")
        => /\ \A n \in 1..Len(Stream) :
                Stream[n] = [i |-> n - 1, v |-> f[X[n]]]
           /\ \A k \in 0..(N - 1) :
                napplied[k] = (IF k < Len(Stream)
                                  \/ (k = Len(Stream) /\ wpc[1] \in {"running", "failed"})
                               THEN 1 ELSE 0)
           /\ wpc[1] = "running" => item[1] = WorkItem(Len(Stream))
           /\ pc = "done" => ret = SeqMap

\* the single worker has mapped a full-length input of distinct payloads
C9_Witness ==
    /\ nprocs = 1 /\ pc = "done"
    /\ N = MaxN
    /\ X[1] # X[2]
    /\ f[None] # f[1]
    /\ ret = SeqMap

\* C10: a second call with the same f, X and nprocs returns what the first
\* returned; the first call leaves nothing behind (no item, sentinel, result
\* or live worker); and the second starts with empty queues and idle workers.
C10_Idempotent ==
    /\ (call > 1 /\ pc = "done") => ret = prev
    /\ pc = "done"
         => /\ q_in = <<>>
            /\ q_out = <<>>
            /\ \A w \in Procs : Exited(w)
    /\ (call > 1 /\ pc = "run" /\ sent = 0 /\ nsentinel = 0)
         => /\ q_in = <<>>
            /\ q_out = <<>>
            /\ \A w \in Procs :
                 wpc[w] = "idle" /\ wbuf[w] = <<>> /\ nseen[w] = 0

\* the second call has returned the same list of distinct values
C10_Witness ==
    /\ call > 1 /\ pc = "done"
    /\ nprocs >= 2
    /\ N >= 2
    /\ ret = prev
    /\ ret[1] # ret[2]
    /\ OutOfOrder(res)

\* one step of worker w within a call, as the worker state machine allows it
LifecycleStep(w) ==
    \/ /\ wpc'[w] = wpc[w]
       /\ item'[w] = item[w]
       /\ wbuf'[w] = wbuf[w] \/ (wbuf[w] # <<>> /\ wbuf'[w] = Tail(wbuf[w]))
    \/ /\ wpc[w] = "idle" /\ wpc'[w] = "running"
       /\ q_in # <<>> /\ Head(q_in).i # None
       /\ item'[w] = Head(q_in)
       /\ wbuf'[w] = wbuf[w]
    \/ /\ wpc[w] = "running" /\ wpc'[w] = "idle"
       /\ Len(wbuf'[w]) = Len(wbuf[w]) + 1
       /\ SubSeq(wbuf'[w], 1, Len(wbuf[w])) = wbuf[w]
       /\ wbuf'[w][Len(wbuf'[w])].i = item[w].i
    \/ /\ wpc[w] = "idle" /\ wpc'[w] = "terminated"
       /\ q_in # <<>> /\ Head(q_in).i = None
       /\ wbuf'[w] = wbuf[w]

\* C11: from its start on, a worker only goes idle -> running on getting a
\* work item, running -> idle on putting exactly one result of the same
\* index, and idle -> terminated on getting a sentinel, for which it puts
\* nothing; once terminated it stays terminated, gets nothing and puts nothing.
C11_WorkerLifecycle ==
    [][pc = "run" => \A w \in Procs : LifecycleStep(w)]_vars

\* C12: work items are put in the order 0, 1, ..., len(X)-1; a sentinel is put
\* only after the last work item; and a worker gets a sentinel (and so leaves
\* its loop) only when every work item has been put and none is left on q_in.
C12_SentinelsLast ==
    /\ [](pc = "run"
            => /\ nsentinel > 0 => sent = N
               /\ \A n \in 1..Len(q_in) :
                    q_in[n].i = None => (sent = N /\ nsentinel > 0)
               /\ \A w \in Procs :
                    (nseen[w] > 0 \/ wpc[w] = "terminated")
                        => /\ sent = N
                           /\ \A n \in 1..Len(q_in) : q_in[n].i = None)
    /\ [][pc = "run"
            => /\ sent' # sent
                    => /\ sent' = sent + 1
                       /\ nsentinel = 0
                       /\ q_in' = Append(q_in, [i |-> sent, x |-> X[sent + 1]])
               /\ nsentinel' # nsentinel
                    => /\ sent = N
                       /\ q_in' = Append(q_in, Sentinel)
               /\ \A w \in Procs :
                    nseen'[w] # nseen[w]
                        => /\ sent = N
                           /\ Head(q_in) = Sentinel
                           /\ q_in' = Tail(q_in)]_vars

\* a worker has left its loop on a sentinel while another still works on the
\* last item and a sentinel is still to be put
C12_Witness ==
    /\ pc = "run" /\ nprocs = MaxP /\ N = MaxN
    /\ sent = N
    /\ nsentinel < nprocs
    /\ \E w \in Procs : wpc[w] = "terminated" /\ nseen[w] = 1
    /\ \E w \in Procs : wpc[w] = "running" /\ item[w].i = N - 1

\* the values in the order the results were got
ArrivalValues == [n \in 1..Len(res) |-> res[n].v]

\* C13: with nprocs >= 2 and len(X) >= 2 results can reach q_out and the
\* coordinator out of index order; whenever they did, the returned list is
\* still map(f, X), it is the values of res sorted by index, and the values
\* in arrival order differ from it wherever f(X[i]) differs between the
\* positions exchanged.
C13_SortRestoresOrder ==
    (pc = "done" /\ OutOfOrder(res))
        => /\ nprocs >= 2 /\ N >= 2
           /\ ret = SeqMap
           /\ \A n \in 1..N : SortedSeq(res)[n].i = n - 1 /\ ret[n] = SortedSeq(res)[n].v
           /\ \A n \in 1..N :
                f[X[res[n].i + 1]] # f[X[n]] => ArrivalValues[n] # ret[n]

\* two workers returned index 1 before index 0, and the values differ
C13_Witness ==
    /\ pc = "done" /\ nprocs >= 2 /\ N >= 2
    /\ res[1].i > res[2].i
    /\ ArrivalValues # ret
    /\ ret = SeqMap

\* index k has had its result put on q_out (line 184 has run for it)
ResultPut(k) ==
    \/ Occ(res, k) + Occ(q_out, k) > 0
    \/ \E w \in Procs : Occ(wbuf[w], k) > 0

\* the indices put on q_in whose result has not been put on q_out
Pending == {k \in 0..(sent - 1) : ~ResultPut(k)}

\* C14: with nprocs >= 1, at most nprocs + 1 work items have been put on q_in
\* without their result having been put on q_out: at most one on q_in and at
\* most one per worker.
C14_InFlightBound ==
    (nprocs >= 1 /\ pc = "run")
        => /\ Cardinality(Pending) <= nprocs + 1
           /\ Cardinality(Pending \ {q_in[n].i : n \in 1..Len(q_in)}) <= nprocs
           /\ \A k \in Pending :
                \/ Occ(q_in, k) = 1
                \/ napplied[k] = 1

\* every worker is busy and one more item waits on q_in
C14_Witness ==
    /\ pc = "run" /\ nprocs = MaxP
    /\ Cardinality(Pending) = nprocs + 1
    /\ \A w \in Procs : wpc[w] = "running"
    /\ Len(q_in) = 1 /\ Head(q_in).i # None

\* C15: when parmap returns with nprocs >= 1 and f never failing, q_in holds
\* neither a work item nor a sentinel, q_out and the workers' feeders hold no
\* result, and as many results have been got as work items were put.
C15_ChannelsDrained ==
    (pc = "done" /\ nprocs >= 1 /\ NeverFails)
        => /\ Len(q_in) = 0
           /\ Len(q_out) = 0
           /\ \A w \in Procs : Len(wbuf[w]) = 0
           /\ Len(res) = sent
           /\ sent = N
           /\ Cardinality({w \in Procs : nseen[w] = 1}) = nsentinel

\* the first call of a full pool on a full-length input has returned
C15_Witness ==
    /\ pc = "done" /\ call = 1
    /\ nprocs = MaxP /\ N = MaxN /\ NeverFails
    /\ Len(res) = N
    /\ q_in = <<>> /\ q_out = <<>>

\* the indices put on q_in whose payload is None
NonePayload == {k \in 0..(sent - 1) : X[k + 1] = None}

\* index k has been got by a worker and line 184 has been left for it
Handled(k) ==
    /\ Occ(q_in, k) = 0
    /\ \A w \in Procs : ~(wpc[w] = "running" /\ item[w].i = k)

\* C16: every work item carries an integer index and only the sentinel has
\* index None, so a work item whose payload is None is never taken for a
\* sentinel: the workers that left their loop are as many as the sentinels
\* got, f is applied once to each such item that has been got, its result is
\* put (exactly when f returns a value for None), and at a return every such
\* index has its result f(None) in the returned list.
C16_SentinelByIndex ==
    pc = "run" \/ pc = "done"
        => /\ \A n \in 1..Len(q_in) :
                \/ q_in[n] = Sentinel
                \/ q_in[n].i \in 0..(N - 1) /\ q_in[n] = WorkItem(q_in[n].i)
           /\ \A w \in Procs :
                wpc[w] = "running" => item[w].i \in 0..(N - 1)
           /\ Cardinality({w \in Procs : wpc[w] = "terminated"})
                = nsentinel - Occ(q_in, None)
           /\ \A k \in NonePayload :
                /\ Occ(q_in, k) = 0 => napplied[k] = 1
                /\ Handled(k) => (ResultPut(k) <=> f[None] # Raise)
                /\ pc = "done" => ret[k + 1] = f[None]

\* a worker has put the result of an item of payload None and works on
\* the next item
C16_Witness ==
    /\ pc = "run" /\ nprocs = 1
    /\ sent >= 2
    /\ X[1] = None /\ f[None] # Raise
    /\ ResultPut(0)
    /\ wpc[1] = "running" /\ item[1].i = 1
    /\ nseen[1] = 0

====
